---- MODULE Spec2Model ----
(***************************************************************************)
(* Balk: 3D thin-walled beam finite-element solver (7 DOFs per node).      *)
(* State machine of balk.model.Model and balk.solver.StaticSolver, with    *)
(* the element matrices of balk.element.Beam3D computed over exact         *)
(* rationals extended with inf / nan (the values numpy float64 division    *)
(* by zero produces).                                                      *)
(***************************************************************************)
EXTENDS Integers, Sequences, FiniteSets, TLC

(***************************************************************************)
(* Bounds of the model (inputs the environment may supply).                *)
(***************************************************************************)
MaxElems == 1
MaxLoads == 2
MaxEigs == 2

\* node ids offered to the setup operations
NodeIds == {1, 2}

\* Model.ndof_per_node
ndof_per_node == 7

\* Node coordinates offered to add_node: points on the global X axis.
CoordInputs == {<<0, 0, 0>>, <<3, 0, 0>>}

\* the position of a third node, off the X axis
ThirdCoord == <<3, 4, 0>>

\* dof_index arguments offered to add_constraint; 7 and -1 lie outside 0..6.
AllDofs == 0..(ndof_per_node - 1)
DofInputs == {0, 6, 7, -1}

\* load_vector arguments offered to add_load (array-likes of length 7).
UnitLoad(d, f) == [i \in 1..ndof_per_node |-> IF i = d + 1 THEN f ELSE 0]
LoadInputs == {UnitLoad(0, 1), UnitLoad(1, -2)}

VARIABLES
    nodes,              \* Model.nodes: id -> Node [coords, dof_indices]
    elements,           \* Model.elements: list of Beam3D [node1, node2] (node ids)
    constraints,        \* Model.constraints: id -> set of dof indices
    constraint_keys,    \* insertion order of the keys of Model.constraints
    loads,              \* Model.loads: id -> 7-vector
    dof_map_generated,  \* Model._dof_map_generated
    total_dofs,         \* Model.total_dofs
    ret,                \* the last call and its outcome: [op, args, status, val]
    reads,              \* DOF-map values the last call read: [dofs, total]
    load_calls,         \* history: the successful add_load calls <<id, vector>>
    constraint_calls,   \* history: the set of successful add_constraint calls <<id, dof>>
    buckling            \* the BucklingSolver.solve call: its stage and its locals

vars == <<nodes, elements, constraints, constraint_keys, loads,
          dof_map_generated, total_dofs, ret, reads, load_calls,
          constraint_calls, buckling>>

model_vars == <<nodes, elements, constraints, constraint_keys, loads,
                dof_map_generated, total_dofs>>

(***************************************************************************)
(* Small helpers.                                                          *)
(***************************************************************************)
Range(s) == {s[i] : i \in DOMAIN s}

RECURSIVE SortedSeq(_)
\* sorted(...) / the ascending order np.unique returns: ascending sequence of a set
SortedSeq(S) ==
    IF S = {} THEN <<>>
    ELSE LET m == CHOOSE x \in S : \A y \in S : x <= y
         IN <<m>> \o SortedSeq(S \ {m})

\* the elements of a finite set of tuples or numbers, in some fixed order
RECURSIVE SetToSeq(_)
SetToSeq(S) ==
    IF S = {} THEN <<>>
    ELSE <<CHOOSE x \in S : TRUE>> \o SetToSeq(S \ {CHOOSE x \in S : TRUE})

NoReads == [dofs |-> <<>>, total |-> <<>>]

\* no BucklingSolver.solve call has been made
NoBuckling ==
    [stage |-> "Idle", num_modes |-> 0, u_static |-> <<>>, axial_forces |-> <<>>,
     K_ff |-> <<>>, Kg_ff |-> <<>>, free_dofs |-> <<>>, vals |-> <<>>]

Ret(op, args, status, val) ==
    [op |-> op, args |-> args, status |-> status, val |-> val]

\* Node.__init__
Node(coords) == [coords |-> coords, dof_indices |-> <<>>]

\* Python list indexing lst[i]: negative i counts from the end, and an index
\* outside -len..len-1 raises IndexError
PyIndexOk(lst, i) == (i >= 0 /\ i < Len(lst)) \/ (i < 0 /\ -i <= Len(lst))
PyIndex(lst, i) == IF i >= 0 THEN lst[i + 1] ELSE lst[Len(lst) + i + 1]

(***************************************************************************)
(* Model.__init__                                                          *)
(***************************************************************************)
Init ==
    /\ nodes = <<>>
    /\ elements = <<>>
    /\ constraints = <<>>
    /\ constraint_keys = <<>>
    /\ loads = <<>>
    /\ dof_map_generated = FALSE
    /\ total_dofs = 0
    /\ ret = Ret("init", <<>>, "ok", <<>>)
    /\ reads = NoReads
    /\ load_calls = <<>>
    /\ constraint_calls = {}
    /\ buckling = NoBuckling

(***************************************************************************)
(* Model.add_node                                                          *)
(***************************************************************************)
\* variant: stores the node without the duplicate-id check
add_node_overwrite(id, coords) ==
    /\ reads' = NoReads
    /\ nodes' = [n \in DOMAIN nodes \cup {id} |->
                    IF n = id THEN Node(coords) ELSE nodes[n]]
    /\ dof_map_generated' = FALSE
    /\ ret' = Ret("add_node", <<id, coords>>,
                  IF id \in DOMAIN nodes THEN "ValueError" ELSE "ok", <<>>)
    /\ UNCHANGED <<elements, constraints, constraint_keys, loads,
                   total_dofs, load_calls, constraint_calls, buckling>>

add_node(id, coords) ==
    /\ reads' = NoReads
    /\ IF id \in DOMAIN nodes
       THEN /\ ret' = Ret("add_node", <<id, coords>>, "ValueError", <<>>)
            /\ UNCHANGED <<model_vars, load_calls, constraint_calls, buckling>>
       ELSE /\ nodes' = [n \in DOMAIN nodes \cup {id} |->
                            IF n = id THEN Node(coords) ELSE nodes[n]]
            /\ dof_map_generated' = FALSE
            /\ ret' = Ret("add_node", <<id, coords>>, "ok", <<>>)
            /\ UNCHANGED <<elements, constraints, constraint_keys, loads,
                           total_dofs, load_calls, constraint_calls, buckling>>

(***************************************************************************)
(* Model.add_element; the Beam3D refers to two Node objects of the model.  *)
(***************************************************************************)
Beam3D(n1, n2) == [node1 |-> n1, node2 |-> n2]

add_element(n1, n2) ==
    /\ n1 \in DOMAIN nodes /\ n2 \in DOMAIN nodes
    /\ elements' = Append(elements, Beam3D(n1, n2))
    /\ ret' = Ret("add_element", <<n1, n2>>, "ok", <<>>)
    /\ reads' = NoReads
    /\ UNCHANGED <<nodes, constraints, constraint_keys, loads,
                   dof_map_generated, total_dofs, load_calls, constraint_calls, buckling>>

(***************************************************************************)
(* Model.add_constraint                                                    *)
(***************************************************************************)
\* variant: the set of the node is replaced instead of extended
RecordConstraint_replace(cs, node_id, dof_index) ==
    [n \in DOMAIN cs \cup {node_id} |->
        IF n = node_id THEN {dof_index} ELSE cs[n]]

\* "if node_id not in self.constraints: self.constraints[node_id] = set()"
\* followed by "self.constraints[node_id].add(dof_index)"
RecordConstraint(cs, node_id, dof_index) ==
    [n \in DOMAIN cs \cup {node_id} |->
        IF n = node_id
        THEN (IF n \in DOMAIN cs THEN cs[n] ELSE {}) \cup {dof_index}
        ELSE cs[n]]

add_constraint(node_id, dof_index) ==
    /\ reads' = NoReads
    /\ IF node_id \notin DOMAIN nodes
       THEN /\ ret' = Ret("add_constraint", <<node_id, dof_index>>, "ValueError", <<>>)
            /\ UNCHANGED <<model_vars, load_calls, constraint_calls, buckling>>
       ELSE /\ constraints' = RecordConstraint(constraints, node_id, dof_index)
            /\ constraint_keys' =
                  IF node_id \in DOMAIN constraints THEN constraint_keys
                  ELSE Append(constraint_keys, node_id)
            /\ constraint_calls' = constraint_calls \cup {<<node_id, dof_index>>}
            /\ ret' = Ret("add_constraint", <<node_id, dof_index>>, "ok", <<>>)
            /\ UNCHANGED <<nodes, elements, loads, dof_map_generated,
                           total_dofs, load_calls, buckling>>

(***************************************************************************)
(* Model.add_load                                                          *)
(***************************************************************************)
ZeroVec7 == [i \in 1..ndof_per_node |-> 0]

VecAdd(a, b) == [i \in DOMAIN a |-> a[i] + b[i]]

\* variant: the load of the node is overwritten instead of accumulated
AccumulateLoad_overwrite(ls, node_id, load_vector) ==
    [n \in DOMAIN ls \cup {node_id} |->
        IF n = node_id THEN load_vector ELSE ls[n]]

\* "if node_id not in self.loads: self.loads[node_id] = np.zeros(7)"
\* followed by "self.loads[node_id] += np.array(load_vector)"
AccumulateLoad(ls, node_id, load_vector) ==
    [n \in DOMAIN ls \cup {node_id} |->
        IF n = node_id
        THEN VecAdd(IF n \in DOMAIN ls THEN ls[n] ELSE ZeroVec7, load_vector)
        ELSE ls[n]]

\* np.zeros(7) += np.array(load_vector): a vector of length 7 is added, one
\* of length 1 is broadcast, any other length raises ValueError
Broadcastable(load_vector) == Len(load_vector) \in {1, ndof_per_node}
Broadcast(load_vector) ==
    [i \in 1..ndof_per_node |->
        IF Len(load_vector) = 1 THEN load_vector[1] ELSE load_vector[i]]

add_load(node_id, load_vector) ==
    /\ reads' = NoReads
    /\ IF node_id \notin DOMAIN nodes
       THEN /\ ret' = Ret("add_load", <<node_id, load_vector>>, "ValueError", <<>>)
            /\ UNCHANGED <<model_vars, load_calls, constraint_calls, buckling>>
       ELSE IF ~Broadcastable(load_vector)
       THEN \* the zero entry is created before += raises
            /\ loads' = AccumulateLoad(loads, node_id, ZeroVec7)
            /\ ret' = Ret("add_load", <<node_id, load_vector>>, "ValueError", <<>>)
            /\ UNCHANGED <<nodes, elements, constraints, constraint_keys,
                           dof_map_generated, total_dofs, load_calls,
                           constraint_calls, buckling>>
       ELSE /\ Len(load_calls) < MaxLoads
            /\ loads' = AccumulateLoad(loads, node_id, Broadcast(load_vector))
            /\ load_calls' = Append(load_calls, <<node_id, load_vector>>)
            /\ ret' = Ret("add_load", <<node_id, load_vector>>, "ok", <<>>)
            /\ UNCHANGED <<nodes, elements, constraints, constraint_keys,
                           dof_map_generated, total_dofs, constraint_calls, buckling>>

(***************************************************************************)
(* Model._generate_dof_map: the loop over sorted(self.nodes.keys()).       *)
(* Returns [nodes, total_dofs] after the loop.                             *)
(***************************************************************************)
RECURSIVE DofMapLoop(_, _, _)
DofMapLoop(ns, ids, current_dof) ==
    IF ids = <<>> THEN [nodes |-> ns, total_dofs |-> current_dof]
    ELSE LET nid == Head(ids)
             ns2 == [ns EXCEPT ![nid].dof_indices =
                        [i \in 1..ndof_per_node |-> current_dof + i - 1]]
         IN DofMapLoop(ns2, Tail(ids), current_dof + ndof_per_node)

\* variant: iterates the node ids in descending order
generate_dof_map_descending(ns) ==
    DofMapLoop(ns, [k \in 1..Cardinality(DOMAIN ns) |->
                       SortedSeq(DOMAIN ns)[Cardinality(DOMAIN ns) + 1 - k]], 0)

\* variant: the loop runs over self.nodes.keys() as the dict yields them
sorted_node_ids_unsorted(keys) == keys

\* sorted(self.nodes.keys()) on the key list of the dict
sorted_node_ids(keys) == SortedSeq(Range(keys))

\* _generate_dof_map on a dict whose keys() yields the ids in the order keys
GenerateFrom(ns, keys) == DofMapLoop(ns, sorted_node_ids(keys), 0)

\* the orders in which a dict with the ids S can yield its keys: one for
\* each order of insertion
NodeKeyOrders(S) == {k \in [1..Cardinality(S) -> S] : Range(k) = S}

\* variant: current_dof is not reset, the numbering continues from total_dofs
generate_dof_map_continued(ns) == DofMapLoop(ns, SortedSeq(DOMAIN ns), total_dofs)

generate_dof_map(ns) == GenerateFrom(ns, SetToSeq(DOMAIN ns))

\* "if not self._dof_map_generated: self._generate_dof_map()"
EnsureDofMap ==
    IF dof_map_generated
    THEN [nodes |-> nodes, total_dofs |-> total_dofs]
    ELSE generate_dof_map(nodes)

(***************************************************************************)
(* Numbers.  A float is modelled by an exact rational <<n, d>> in lowest   *)
(* terms with d > 0; d = 0 encodes the non-finite float64 values that      *)
(* numpy division by zero yields: <<1,0>> = inf, <<-1,0>> = -inf,          *)
(* <<0,0>> = nan.                                                          *)
(***************************************************************************)
Abs(i) == IF i < 0 THEN -i ELSE i

Sign(i) == IF i < 0 THEN -1 ELSE IF i > 0 THEN 1 ELSE 0

RECURSIVE Gcd(_, _)
Gcd(a, b) == IF b = 0 THEN a ELSE Gcd(b, a % b)

Q(n, d) ==
    IF d = 0 THEN <<Sign(n), 0>>
    ELSE IF n = 0 THEN <<0, 1>>
    ELSE LET g == Gcd(Abs(n), Abs(d))
         IN <<(Sign(d) * n) \div g, Abs(d) \div g>>

Rat(i) == <<i, 1>>
QZero == <<0, 1>>
QOne == <<1, 1>>
QNan == <<0, 0>>

QIsFinite(a) == a[2] # 0
QIsNan(a) == a = QNan
\* inf + inf = inf, inf + (-inf) = nan, nan + x = nan
QAdd(a, b) ==
    IF a[2] = 0 /\ b[2] = 0 THEN (IF a = b THEN a ELSE QNan)
    ELSE Q(a[1] * b[2] + b[1] * a[2], a[2] * b[2])
QNeg(a) == <<-a[1], a[2]>>
QSub(a, b) == QAdd(a, QNeg(b))
QMul(a, b) == Q(a[1] * b[1], a[2] * b[2])
\* 1/b: 1/0 = inf, 1/inf = 0, 1/nan = nan
QInv(b) ==
    IF b[2] = 0 THEN (IF b[1] = 0 THEN QNan ELSE QZero)
    ELSE IF b[1] = 0 THEN <<1, 0>>
    ELSE <<Sign(b[1]) * b[2], Abs(b[1])>>
QDiv(a, b) == QMul(a, QInv(b))
QAbs(a) == <<Abs(a[1]), a[2]>>
\* a < b as floats compare: FALSE whenever either side is nan
QLess(a, b) ==
    /\ ~QIsNan(a) /\ ~QIsNan(b)
    /\ IF a[2] = 0 THEN a[1] < 0 /\ b # a
       ELSE IF b[2] = 0 THEN b[1] > 0
       ELSE a[1] * b[2] < b[1] * a[2]
QLeq(a, b) == ~QIsNan(a) /\ ~QIsNan(b) /\ ~QLess(b, a)

\* x is a power of two (the denominators of exactly representable floats)
RECURSIVE IsPow2(_)
IsPow2(x) == x = 1 \/ (x > 1 /\ x % 2 = 0 /\ IsPow2(x \div 2))

\* the rational is a float64 value: no rounding happened in producing it
QIsExact(a) == a[2] = 0 \/ IsPow2(a[2])

\* square root of a perfect square (the lengths the coordinate inputs give)
ISqrt(n) == CHOOSE r \in 0..n : r * r = n
QSqrt(a) == IF a[2] = 0 THEN (IF a[1] > 0 THEN a ELSE QNan)
            ELSE <<ISqrt(a[1]), ISqrt(a[2])>>

\* dense vectors and matrices are functions over 1..n
RECURSIVE QSumRange(_, _, _)
QSumRange(f, lo, hi) ==
    IF lo > hi THEN QZero
    ELSE IF lo = hi THEN f[lo]
    ELSE QAdd(QSumRange(f, lo, (lo + hi) \div 2),
              QSumRange(f, (lo + hi) \div 2 + 1, hi))
QSum(f, n) == QSumRange(f, 1, n)

\* evaluate a vector / matrix once, entry by entry, into a tuple
Dense(f, n) == SubSeq(f, 1, n)

\* F(v) with the argument v evaluated first
Let(v, F(_)) == CHOOSE r \in {F(x) : x \in {v}} : TRUE
DenseMat(A, n) == Dense([i \in 1..n |-> Dense(A[i], n)], n)

MatMul(A, B, n) ==
    DenseMat([i \in 1..n |-> [j \in 1..n |->
        QSum([k \in 1..n |-> QMul(A[i][k], B[k][j])], n)]], n)
MatVec(A, v, n) ==
    Dense([i \in 1..n |-> QSum([k \in 1..n |-> QMul(A[i][k], v[k])], n)], n)
Transpose(A, n) == DenseMat([i \in 1..n |-> [j \in 1..n |-> A[j][i]]], n)

(***************************************************************************)
(* Material and Section (plain value holders) and the objects every        *)
(* element of the model is built with.                                     *)
(***************************************************************************)
\* Material.__init__ called with E and G
Material(E, G) == [E |-> E, G |-> G]

\* Section.__init__
Section(A, Iy, Iz, J, Cw) == [A |-> A, Iy |-> Iy, Iz |-> Iz, J |-> J, Cw |-> Cw]

material == Material(60, 30)
section == Section(1, 1, 1, 1, 1)

\* the Python value None, distinct from every rational <<n, d>>
None == <<>>

\* Material.__init__(E, G=None, nu=None): E, G, nu are floats (rationals
\* here) or None.  Returns [status, E, G, nu].  The divisions are Python
\* float divisions, which raise ZeroDivisionError on a zero divisor.
Material_init(E, G, nu) ==
    IF G # None /\ nu # None
    THEN [status |-> "ok", E |-> E, G |-> G, nu |-> nu]
    ELSE IF G # None
    THEN IF QMul(Rat(2), G) = QZero
         THEN [status |-> "ZeroDivisionError", E |-> E, G |-> G, nu |-> None]
         ELSE [status |-> "ok", E |-> E, G |-> G,
               nu |-> QSub(QDiv(E, QMul(Rat(2), G)), QOne)]
    ELSE IF nu # None
    THEN IF QMul(Rat(2), QAdd(QOne, nu)) = QZero
         THEN [status |-> "ZeroDivisionError", E |-> E, G |-> None, nu |-> nu]
         ELSE [status |-> "ok", E |-> E, nu |-> nu,
               G |-> QDiv(E, QMul(Rat(2), QAdd(QOne, nu)))]
    ELSE [status |-> "ValueError", E |-> E, G |-> None, nu |-> None]

(***************************************************************************)
(* Beam3D.  An element is given by the coordinates of its two nodes.       *)
(***************************************************************************)
\* Beam3D.length: np.linalg.norm(node2.coords - node1.coords)
length(c1, c2) ==
    ISqrt((c2[1] - c1[1]) * (c2[1] - c1[1]) + (c2[2] - c1[2]) * (c2[2] - c1[2])
          + (c2[3] - c1[3]) * (c2[3] - c1[3]))

Cross(a, b) == << QSub(QMul(a[2], b[3]), QMul(a[3], b[2])),
                  QSub(QMul(a[3], b[1]), QMul(a[1], b[3])),
                  QSub(QMul(a[1], b[2]), QMul(a[2], b[1])) >>
Norm3(a) == QSqrt(QAdd(QAdd(QMul(a[1], a[1]), QMul(a[2], a[2])), QMul(a[3], a[3])))
\* variant: the vector is not normalised
Scale3_skipped(a, s) == a
Scale3(a, s) == <<QDiv(a[1], s), QDiv(a[2], s), QDiv(a[3], s)>>

\* Beam3D.direction_cosine_matrix: R[i][j], columns x_local, y_local, z_local
direction_cosine_matrix(c1, c2) ==
    LET L == Rat(length(c1, c2))
        diff == <<Rat(c2[1] - c1[1]), Rat(c2[2] - c1[2]), Rat(c2[3] - c1[3])>>
        x_local == Scale3(diff, L)
        \* np.allclose(x_local[:2], 0): |x| <= 1e-8, False for nan
        vertical == /\ QLeq(QAbs(x_local[1]), <<1, 100000000>>)
                    /\ QLeq(QAbs(x_local[2]), <<1, 100000000>>)
        temp_vec == IF vertical THEN <<QOne, QZero, QZero>>
                    ELSE <<QZero, QZero, QOne>>
        y0 == Cross(temp_vec, x_local)
        y1 == IF QLess(Norm3(y0), <<1, 1000000>>)
              THEN Cross(<<QZero, QOne, QZero>>, x_local) ELSE y0
        y_local == Scale3(y1, Norm3(y1))
        z_local == Cross(x_local, y_local)
    IN DenseMat([i \in 1..3 |-> <<x_local[i], y_local[i], z_local[i]>>], 3)

\* Beam3D.transformation_matrix: block_diag(T_node, T_node), T_node from R^T
transformation_matrix(c1, c2) ==
    LET R == direction_cosine_matrix(c1, c2)
        T_node == DenseMat([i \in 1..7 |-> [j \in 1..7 |->
                     IF i <= 3 /\ j <= 3 THEN R[j][i]
                     ELSE IF i \in 4..6 /\ j \in 4..6 THEN R[j - 3][i - 3]
                     ELSE IF i = j THEN QOne ELSE QZero]], 7)
    IN DenseMat([i \in 1..14 |-> [j \in 1..14 |->
          IF i <= 7 /\ j <= 7 THEN T_node[i][j]
          ELSE IF i > 7 /\ j > 7 THEN T_node[i - 7][j - 7]
          ELSE QZero]], 14)

\* the 4x4 patterns of local_stiffness_matrix, entries as functions of L
HermiteBending(L) == LET s == QMul(L, L) IN
    << <<Rat(12), QMul(Rat(6), L), Rat(-12), QMul(Rat(6), L)>>,
       <<QMul(Rat(6), L), QMul(Rat(4), s), QMul(Rat(-6), L), QMul(Rat(2), s)>>,
       <<Rat(-12), QMul(Rat(-6), L), Rat(12), QMul(Rat(-6), L)>>,
       <<QMul(Rat(6), L), QMul(Rat(2), s), QMul(Rat(-6), L), QMul(Rat(4), s)>> >>
HermiteStVenant(L) == LET s == QMul(L, L) IN
    << <<Rat(36), QMul(Rat(3), L), Rat(-36), QMul(Rat(3), L)>>,
       <<QMul(Rat(3), L), QMul(Rat(4), s), QMul(Rat(-3), L), QNeg(s)>>,
       <<Rat(-36), QMul(Rat(-3), L), Rat(36), QMul(Rat(-3), L)>>,
       <<QMul(Rat(3), L), QNeg(s), QMul(Rat(-3), L), QMul(Rat(4), s)>> >>
\* variant: the signs of the rotation-coupling terms are flipped in the first
\* row only
HermiteBendingY_first_row(L) ==
    [HermiteBending(L) EXCEPT ![1] = <<Rat(12), QMul(Rat(-6), L), Rat(-12), QMul(Rat(-6), L)>>]
HermiteBendingY(L) == LET s == QMul(L, L) IN
    << <<Rat(12), QMul(Rat(-6), L), Rat(-12), QMul(Rat(-6), L)>>,
       <<QMul(Rat(-6), L), QMul(Rat(4), s), QMul(Rat(6), L), QMul(Rat(2), s)>>,
       <<Rat(-12), QMul(Rat(6), L), Rat(12), QMul(Rat(6), L)>>,
       <<QMul(Rat(-6), L), QMul(Rat(2), s), QMul(Rat(6), L), QMul(Rat(4), s)>> >>
\* variant: the coupling terms of the bar stiffness lose their sign
AxialPattern_unsigned == << <<Rat(1), Rat(1)>>, <<Rat(1), Rat(1)>> >>
AxialPattern == << <<Rat(1), Rat(-1)>>, <<Rat(-1), Rat(1)>> >>

\* 0-based local index lists of the four sub-blocks
axial_indices == <<0, 7>>
torsion_indices == <<3, 6, 10, 13>>
bending_z_indices == <<1, 5, 8, 12>>
bending_y_indices == <<2, 4, 9, 11>>

\* position (1-based) of 0-based index i in an index list, 0 if absent
PosIn(idx, i) == IF \E p \in DOMAIN idx : idx[p] = i
                 THEN CHOOSE p \in DOMAIN idx : idx[p] = i ELSE 0

\* k[np.ix_(idx, idx)] += c * M, applied to one entry (i, j) (0-based)
BlockEntry(idx, c, M, i, j) ==
    IF PosIn(idx, i) > 0 /\ PosIn(idx, j) > 0
    THEN QMul(c, M[PosIn(idx, i)][PosIn(idx, j)]) ELSE QZero

\* Beam3D.local_stiffness_matrix for material mat = [E, G], section
\* sec = [A, Iy, Iz, J, Cw] and length L (all rationals)
local_stiffness(mat, sec, L) ==
    LET L3 == QMul(QMul(L, L), L)
        kax == QDiv(QMul(mat.E, sec.A), L)
        kwb == QDiv(QMul(mat.E, sec.Cw), L3)
        ksv == QDiv(QMul(mat.G, sec.J), QMul(Rat(30), L))
        kbz == QDiv(QMul(mat.E, sec.Iz), L3)
        kby == QDiv(QMul(mat.E, sec.Iy), L3)
    IN DenseMat([i \in 1..14 |-> [j \in 1..14 |->
          QAdd(QAdd(QAdd(BlockEntry(axial_indices, kax, AxialPattern, i - 1, j - 1),
                         QAdd(BlockEntry(torsion_indices, kwb, HermiteBending(L), i - 1, j - 1),
                              BlockEntry(torsion_indices, ksv, HermiteStVenant(L), i - 1, j - 1))),
                    BlockEntry(bending_z_indices, kbz, HermiteBending(L), i - 1, j - 1)),
               BlockEntry(bending_y_indices, kby, HermiteBendingY(L), i - 1, j - 1))]], 14)

\* the material and section of the elements of the model, as rationals
element_material == [E |-> Rat(material.E), G |-> Rat(material.G)]
element_section ==
    [A |-> Rat(section.A), Iy |-> Rat(section.Iy), Iz |-> Rat(section.Iz),
     J |-> Rat(section.J), Cw |-> Rat(section.Cw)]

\* Beam3D.local_stiffness_matrix of an element of the model
local_stiffness_matrix(c1, c2) ==
    local_stiffness(element_material, element_section, Rat(length(c1, c2)))

\* c * M for a 4x4 pattern M
Scaled4(c, M) == DenseMat([i \in 1..4 |-> [j \in 1..4 |-> QMul(c, M[i][j])]], 4)

\* kg_flex_y[:, [1, 3]] *= -1 (0-based columns 1 and 3)
FlipCols(M) ==
    DenseMat([i \in 1..4 |-> [j \in 1..4 |->
        IF j \in {2, 4} THEN QNeg(M[i][j]) ELSE M[i][j]]], 4)

\* variant: the rows are left as they are
FlipRows_skipped(M) == M

\* kg_flex_y[[1, 3], :] *= -1 (0-based rows 1 and 3)
FlipRows(M) ==
    DenseMat([i \in 1..4 |-> [j \in 1..4 |->
        IF i \in {2, 4} THEN QNeg(M[i][j]) ELSE M[i][j]]], 4)

\* Beam3D.geometric_stiffness_matrix(axial_force) for section sec, length L
\* and P = float(axial_force)
geometric_stiffness(sec, L, P) ==
    LET kg_flex == Scaled4(QDiv(P, QMul(Rat(30), L)), HermiteStVenant(L))
        kg_flex_y == FlipRows(FlipCols(kg_flex))
        r0_sq == QDiv(QAdd(sec.Iy, sec.Iz), sec.A)
        kg_torsion == Scaled4(QDiv(QMul(P, r0_sq), QMul(Rat(30), L)),
                              HermiteStVenant(L))
    IN DenseMat([i \in 1..14 |-> [j \in 1..14 |->
          QAdd(QAdd(BlockEntry(bending_z_indices, QOne, kg_flex, i - 1, j - 1),
                    BlockEntry(bending_y_indices, QOne, kg_flex_y, i - 1, j - 1)),
               BlockEntry(torsion_indices, QOne, kg_torsion, i - 1, j - 1))]], 14)

\* Beam3D.geometric_stiffness_matrix of an element of the model
geometric_stiffness_matrix(c1, c2, P) ==
    geometric_stiffness(element_section, Rat(length(c1, c2)), P)

\* T.T @ M @ T for 14x14 matrices
CongruenceT(T, M) ==
    Let(DenseMat([i \in 1..14 |-> [j \in 1..14 |->
            QSum([k \in 1..14 |-> QMul(T[k][i], M[k][j])], 14)]], 14),
        LAMBDA TtM : MatMul(TtM, T, 14))

\* Beam3D.global_stiffness_matrix: T.T @ k_local @ T
GlobalStiffness(c1, c2) ==
    Let(<<transformation_matrix(c1, c2), local_stiffness_matrix(c1, c2)>>,
        LAMBDA tk : CongruenceT(tk[1], tk[2]))

\* the matrix depends on the two end points only: it is computed once for
\* every pair of coordinate inputs and looked up afterwards
CoordList == SetToSeq(CoordInputs \cup {ThirdCoord})
CoordIndex(c) == CHOOSE i \in 1..Len(CoordList) : CoordList[i] = c
GlobalStiffnessTable ==
    Dense([i \in 1..Len(CoordList) |->
              Dense([j \in 1..Len(CoordList) |->
                        GlobalStiffness(CoordList[i], CoordList[j])],
                    Len(CoordList))],
          Len(CoordList))
global_stiffness_matrix(c1, c2) == GlobalStiffnessTable[CoordIndex(c1)][CoordIndex(c2)]

\* Beam3D.global_geometric_stiffness_matrix(P): T.T @ kg_local @ T
global_geometric_stiffness_matrix(c1, c2, P) ==
    Let(<<transformation_matrix(c1, c2), geometric_stiffness_matrix(c1, c2, P)>>,
        LAMBDA tk : CongruenceT(tk[1], tk[2]))

(***************************************************************************)
(* Model assembly.  Global vectors and matrices are tuples indexed 1..N;   *)
(* global DOF index g (0-based, as in dof_indices) is position g + 1.      *)
(***************************************************************************)
\* coordinates of the two Node objects of an element
ElemCoords(ns, el) == <<ns[el.node1].coords, ns[el.node2].coords>>

\* dofs = el.node1.dof_indices + el.node2.dof_indices
ElemDofs(ns, el) == ns[el.node1].dof_indices \o ns[el.node2].dof_indices

\* last position of global index g in the index list dofs, 0 if absent
LastPos(dofs, g) ==
    IF \E p \in DOMAIN dofs : dofs[p] = g
    THEN CHOOSE p \in DOMAIN dofs :
             dofs[p] = g /\ \A q \in DOMAIN dofs : dofs[q] = g => q <= p
    ELSE 0

\* variant: K[np.ix_(dofs, dofs)] = k_el, the block is assigned, not added
ScatterAdd_assign(K, dofs, k_el, N) ==
    DenseMat([i \in 1..N |-> [j \in 1..N |->
        IF LastPos(dofs, i - 1) > 0 /\ LastPos(dofs, j - 1) > 0
        THEN k_el[LastPos(dofs, i - 1)][LastPos(dofs, j - 1)]
        ELSE K[i][j]]], N)

\* K[np.ix_(dofs, dofs)] += k_el: gather, add, scatter (last write wins)
ScatterAdd(K, dofs, k_el, N) ==
    DenseMat([i \in 1..N |-> [j \in 1..N |->
        IF LastPos(dofs, i - 1) > 0 /\ LastPos(dofs, j - 1) > 0
        THEN QAdd(K[i][j], k_el[LastPos(dofs, i - 1)][LastPos(dofs, j - 1)])
        ELSE K[i][j]]], N)

ZeroMat(N) == DenseMat([i \in 1..N |-> [j \in 1..N |-> QZero]], N)

\* the element loop of assemble_stiffness
RECURSIVE AssembleLoop(_, _, _, _, _)
AssembleLoop(K, ns, els, e, N) ==
    IF e > Len(els) THEN K
    ELSE Let(global_stiffness_matrix(ElemCoords(ns, els[e])[1],
                                     ElemCoords(ns, els[e])[2]),
             LAMBDA k_el :
                 Let(ScatterAdd(K, ElemDofs(ns, els[e]), k_el, N),
                     LAMBDA Kn : AssembleLoop(Kn, ns, els, e + 1, N)))

\* Model.assemble_stiffness on a model whose DOF map is m = [nodes, total_dofs]
K_global(m) == AssembleLoop(ZeroMat(m.total_dofs), m.nodes, elements, 1, m.total_dofs)

\* abs(P) < 1e-9, without forming products beyond the integers of the checker
IsNegligible(P) ==
    /\ QIsFinite(P)
    /\ \/ P[1] = 0
       \/ P[2] \div Abs(P[1]) > 1000000000
       \/ (P[2] \div Abs(P[1]) = 1000000000 /\ P[2] % Abs(P[1]) > 0)

\* the element loop of assemble_geometric_stiffness: elements whose force
\* is negligible are skipped
RECURSIVE GeometricLoop(_, _, _, _, _, _)
GeometricLoop(Kg, ns, els, forces, e, N) ==
    IF e > Len(els) THEN Kg
    ELSE IF IsNegligible(forces[e])
    THEN GeometricLoop(Kg, ns, els, forces, e + 1, N)
    ELSE Let(global_geometric_stiffness_matrix(ElemCoords(ns, els[e])[1],
                                               ElemCoords(ns, els[e])[2], forces[e]),
             LAMBDA kg_el :
                 Let(ScatterAdd(Kg, ElemDofs(ns, els[e]), kg_el, N),
                     LAMBDA Kn : GeometricLoop(Kn, ns, els, forces, e + 1, N)))

\* Model.assemble_geometric_stiffness(forces), forces a list in element
\* order, on a model whose DOF map is m
Kg_global(m, forces) ==
    GeometricLoop(ZeroMat(m.total_dofs), m.nodes, elements, forces, 1, m.total_dofs)

\* DOF-map values assemble_stiffness reads
ElemReads(ns) ==
    [k \in 1..(2 * Len(elements)) |->
        LET el == elements[(k + 1) \div 2]
            nid == IF k % 2 = 1 THEN el.node1 ELSE el.node2
        IN <<nid, ns[nid].dof_indices>>]

\* variant: every node load is added at the local indices 0..6
F_global_local(m) ==
    [g \in 1..m.total_dofs |->
        IF g <= ndof_per_node /\ DOMAIN loads # {}
        THEN LET ks == SortedSeq(DOMAIN loads)
                 RECURSIVE Acc(_)
                 Acc(k) == IF k = 0 THEN 0 ELSE loads[ks[k]][g] + Acc(k - 1)
             IN Acc(Len(ks))
        ELSE 0]

\* Model.get_load_vector on DOF map m: F[dofs] += load for every loaded node
F_global(m) ==
    [g \in 1..m.total_dofs |->
        IF \E nid \in DOMAIN loads :
               \E d \in 1..ndof_per_node : m.nodes[nid].dof_indices[d] = g - 1
        THEN LET nid == CHOOSE n \in DOMAIN loads :
                           \E d \in 1..ndof_per_node :
                               m.nodes[n].dof_indices[d] = g - 1
                 d == CHOOSE dd \in 1..ndof_per_node :
                           m.nodes[nid].dof_indices[dd] = g - 1
             IN loads[nid][d]
        ELSE 0]

LoadReads(ns) ==
    LET ks == SortedSeq(DOMAIN loads)
    IN [k \in 1..Len(ks) |-> <<ks[k], ns[ks[k]].dof_indices>>]

\* the list "constrained" of get_constrained_dofs before np.unique:
\* keys in insertion order, each set of dofs in ascending order
RECURSIVE ConstrainedList(_, _)
ConstrainedList(ns, keys) ==
    IF keys = <<>> THEN <<>>
    ELSE LET nid == Head(keys)
             ds == SortedSeq(constraints[nid])
         IN [k \in 1..Len(ds) |-> PyIndex(ns[nid].dof_indices, ds[k])]
            \o ConstrainedList(ns, Tail(keys))

\* np.unique: the sorted unique elements
np_unique(lst) == SortedSeq(Range(lst))

\* node.dof_indices[d] raises IndexError for some recorded d
ConstrainedRaises(ns) ==
    \E nid \in DOMAIN constraints :
        \E d \in constraints[nid] : ~PyIndexOk(ns[nid].dof_indices, d)

\* Model.get_constrained_dofs on DOF map m (when no IndexError is raised)
constrained_dofs(m) == np_unique(ConstrainedList(m.nodes, constraint_keys))

ConstraintReads(ns) ==
    [k \in 1..Len(constraint_keys) |->
        <<constraint_keys[k], ns[constraint_keys[k]].dof_indices>>]

(***************************************************************************)
(* np.linalg.solve (LAPACK gesv): LU factorisation with partial pivoting.  *)
(* gesv reports a singular matrix only when a pivot is EXACTLY zero in     *)
(* floating point.  The factorisation is carried out on the exact          *)
(* rationals, and each entry carries a flag telling whether the float the  *)
(* machine holds may differ from the rational by rounding.  A pivot column *)
(* whose candidates are all zero is an exactly zero pivot when no          *)
(* candidate is rounded ("singular"); when one is rounded the float pivot  *)
(* is zero or a rounding residue, depending on the build ("uncertain").    *)
(***************************************************************************)
\* some entry of the n x n matrix A is inf or nan
HasNonFinite(A, n) == \E i \in 1..n : \E j \in 1..n : ~QIsFinite(A[i][j])

\* a zero row or column, or two rows equal up to sign: such rows get
\* multipliers of equal magnitude, stay equal up to sign and cancel exactly
\* when one is divided by the other, whatever the rounding of their entries
StructurallySingular(A, n) ==
    \/ \E i \in 1..n : \A j \in 1..n : A[i][j] = QZero
    \/ \E j \in 1..n : \A i \in 1..n : A[i][j] = QZero
    \/ \E i \in 1..n : \E k \in 1..n :
          /\ i < k
          /\ \/ \A j \in 1..n : A[i][j] = A[k][j]
             \/ \A j \in 1..n : A[i][j] = QNeg(A[k][j])

\* first row of c..n holding the largest |V[r][c]| (idamax)
PivotRow(V, c, n) ==
    CHOOSE p \in c..n :
        \A r \in c..n :
            \/ QLess(QAbs(V[r][c]), QAbs(V[p][c]))
            \/ (QAbs(V[r][c]) = QAbs(V[p][c]) /\ p <= r)

Swap(M, c, p, n) ==
    Dense([r \in 1..n |-> IF r = c THEN M[p] ELSE IF r = p THEN M[c] ELSE M[r]], n)

\* the multiplier V[r][c] / V[c][c] is rounded
MultRounded(V, P, r, c) ==
    IF V[r][c] = QZero /\ ~P[r][c] THEN FALSE
    ELSE ~(~P[r][c] /\ ~P[c][c] /\ QIsExact(QDiv(V[r][c], V[c][c])))

\* row r of the augmented matrix after eliminating column c with pivot row c
ElimRowV(V, P, r, c, n) ==
    LET m == QDiv(V[r][c], V[c][c])
        mp == MultRounded(V, P, r, c)
    IN Dense([j \in 1..(n + 1) |->
          IF j < c THEN V[r][j]
          ELSE IF j = c THEN QZero
          ELSE IF j <= n /\ ((V[c][j] = QZero /\ ~P[c][j]) \/ (m = QZero /\ ~mp))
               THEN V[r][j]
          ELSE QSub(V[r][j], QMul(m, V[c][j]))], n + 1)

ElimRowP(V, P, r, c, n) ==
    LET m == QDiv(V[r][c], V[c][c])
        mp == MultRounded(V, P, r, c)
    IN Dense([j \in 1..n |->
          IF j < c THEN P[r][j]
          ELSE IF j = c THEN FALSE
          ELSE IF (V[c][j] = QZero /\ ~P[c][j]) \/ (m = QZero /\ ~mp)
               THEN P[r][j]
          ELSE P[r][j] \/ mp \/ P[c][j]], n)

\* one elimination step: swap the pivot row into row c, then update the
\* rows below it; st = [V, P] with V the n x (n+1) augmented matrix and P the
\* n x n rounding flags
EliminateColumn(st, c, n) ==
    Let([V |-> Swap(st.V, c, PivotRow(st.V, c, n), n),
         P |-> Swap(st.P, c, PivotRow(st.V, c, n), n)],
        LAMBDA s :
            [V |-> Dense([r \in 1..n |-> IF r <= c THEN s.V[r]
                                         ELSE ElimRowV(s.V, s.P, r, c, n)], n),
             P |-> Dense([r \in 1..n |-> IF r <= c THEN s.P[r]
                                         ELSE ElimRowP(s.V, s.P, r, c, n)], n)])

\* forward elimination from column c on
RECURSIVE Eliminate(_, _, _)
Eliminate(st, c, n) ==
    IF c > n THEN [status |-> "ok", V |-> st.V]
    ELSE IF \A r \in c..n : st.V[r][c] = QZero
    THEN [status |-> IF \E r \in c..n : st.P[r][c] THEN "uncertain" ELSE "singular",
          V |-> st.V]
    ELSE Eliminate(EliminateColumn(st, c, n), c + 1, n)

\* back substitution on the upper triangular U = V, from the last unknown up;
\* x holds the unknowns found so far, x[i+1..n]
RECURSIVE BackSubst(_, _, _)
BackSubst(V, x, n) ==
    IF Len(x) = n THEN x
    ELSE BackSubst(V,
             <<QDiv(QSub(V[n - Len(x)][n + 1],
                         QSum([k \in 1..Len(x) |->
                                  QMul(V[n - Len(x)][n - Len(x) + k], x[k])], Len(x))),
                    V[n - Len(x)][n - Len(x)])>> \o x,
             n)

\* np.linalg.solve(A, b): [status, x] with status "ok" (x solves A x = b),
\* "nan" (x is all nan), "singular" (LinAlgError) or "uncertain"
linalg_solve(A, b, n) ==
    IF HasNonFinite(A, n)
    THEN [status |-> "nan", x |-> [i \in 1..n |-> QNan]]
    ELSE IF StructurallySingular(A, n)
    THEN [status |-> "singular", x |-> <<>>]
    ELSE Let(Eliminate([V |-> Dense([i \in 1..n |-> A[i] \o <<b[i]>>], n),
                        P |-> DenseMat([i \in 1..n |-> [j \in 1..n |->
                                    ~QIsExact(A[i][j])]], n)],
                       1, n),
             LAMBDA lu :
                 IF lu.status = "ok"
                 THEN [status |-> "ok", x |-> BackSubst(lu.V, <<>>, n)]
                 ELSE [status |-> lu.status, x |-> <<>>])

(***************************************************************************)
(* Model.assemble_stiffness                                                *)
(***************************************************************************)
assemble_stiffness ==
    \E m \in {EnsureDofMap} :
       /\ nodes' = m.nodes
       /\ total_dofs' = m.total_dofs
       /\ dof_map_generated' = TRUE
       /\ ret' = Ret("assemble_stiffness", <<>>, "ok", K_global(m))
       /\ reads' = [dofs |-> ElemReads(m.nodes), total |-> <<m.total_dofs>>]
       /\ UNCHANGED <<elements, constraints, constraint_keys, loads,
                      load_calls, constraint_calls, buckling>>

(***************************************************************************)
(* Model.get_load_vector                                                   *)
(***************************************************************************)
get_load_vector ==
    \E m \in {EnsureDofMap} :
       /\ nodes' = m.nodes
       /\ total_dofs' = m.total_dofs
       /\ dof_map_generated' = TRUE
       /\ ret' = Ret("get_load_vector", <<>>, "ok", F_global(m))
       /\ reads' = [dofs |-> LoadReads(m.nodes), total |-> <<m.total_dofs>>]
       /\ UNCHANGED <<elements, constraints, constraint_keys, loads,
                      load_calls, constraint_calls, buckling>>

(***************************************************************************)
(* Model.get_constrained_dofs                                              *)
(***************************************************************************)
get_constrained_dofs ==
    \E m \in {EnsureDofMap} :
       /\ nodes' = m.nodes
       /\ total_dofs' = m.total_dofs
       /\ dof_map_generated' = TRUE
       /\ ret' = IF ConstrainedRaises(m.nodes)
                 THEN Ret("get_constrained_dofs", <<>>, "IndexError", <<>>)
                 ELSE Ret("get_constrained_dofs", <<>>, "ok", constrained_dofs(m))
       /\ reads' = [dofs |-> ConstraintReads(m.nodes), total |-> <<>>]
       /\ UNCHANGED <<elements, constraints, constraint_keys, loads,
                      load_calls, constraint_calls, buckling>>

(***************************************************************************)
(* StaticSolver.solve                                                      *)
(***************************************************************************)
\* np.setdiff1d(np.arange(total_dofs), constrained_dofs)
free_dofs(m) ==
    SortedSeq((0..(m.total_dofs - 1)) \ Range(constrained_dofs(m)))

\* K[np.ix_(free, free)] and F[free]
K_ff(K, free) ==
    DenseMat([i \in 1..Len(free) |-> [j \in 1..Len(free) |->
        K[free[i] + 1][free[j] + 1]]], Len(free))
F_f(F, free) == Dense([i \in 1..Len(free) |-> Rat(F[free[i] + 1])], Len(free))

\* variant: u[:len(u_f)] = u_f, the solution stored at the leading positions
Reconstruct_leading(u_f, free, N) ==
    Dense([g \in 1..N |-> IF g <= Len(free) THEN u_f[g] ELSE QZero], N)

\* u = np.zeros(total_dofs); u[free_dofs] = u_f
Reconstruct(u_f, free, N) ==
    Dense([g \in 1..N |->
        IF \E i \in 1..Len(free) : free[i] = g - 1
        THEN u_f[CHOOSE i \in 1..Len(free) : free[i] = g - 1]
        ELSE QZero], N)

\* values np.linalg.solve may return when rounding hides the singularity
GarbageValues == {<<1000000, 1>>, <<-1000000, 1>>}

\* the result of solve: val = [u, free, linsolve]; linsolve tells how
\* np.linalg.solve answered ("none" when it was not called)
SolveRet(status, u, free, linsolve) ==
    Ret("solve", <<>>, status, [u |-> u, free |-> free, linsolve |-> linsolve])

\* the DOF-map values and total_dofs reads of one solve call, in order:
\* assemble_stiffness, get_load_vector, get_constrained_dofs, np.arange and,
\* when the linear solve returned, np.zeros
SolveReads(m, outcome) ==
    [dofs |-> ElemReads(m.nodes) \o LoadReads(m.nodes) \o ConstraintReads(m.nodes),
     total |-> IF outcome.status = "IndexError" THEN <<m.total_dofs, m.total_dofs>>
               ELSE IF outcome.status = "LinAlgError"
               THEN <<m.total_dofs, m.total_dofs, m.total_dofs>>
               ELSE <<m.total_dofs, m.total_dofs, m.total_dofs, m.total_dofs>>]

\* what np.linalg.solve(K_ff, F_f) and the reconstruction can produce
LinearOutcomes(sol, free, N) ==
    {SolveRet("ok", Reconstruct(sol.x, free, N), free, sol.status) :
        dummy \in {s \in {sol.status} : s \in {"ok", "nan"}}}
    \cup {SolveRet("LinAlgError", <<>>, free, sol.status) :
        dummy \in {s \in {sol.status} : s \in {"singular", "uncertain"}}}
    \cup {SolveRet("ok", Reconstruct([i \in 1..Len(free) |-> g], free, N),
                   free, "garbage") :
        g \in {v \in GarbageValues : sol.status = "uncertain"}}

\* every outcome of StaticSolver.solve on DOF map m
SolveOutcomes(m) ==
    IF ConstrainedRaises(m.nodes)
    THEN {SolveRet("IndexError", <<>>, <<>>, "none")}
    ELSE IF free_dofs(m) = <<>>
    THEN {SolveRet("ok", Dense([g \in 1..m.total_dofs |-> QZero], m.total_dofs),
                   <<>>, "none")}
    ELSE Let([K |-> K_global(m), F |-> F_global(m), free |-> free_dofs(m)],
             LAMBDA a :
                 Let([K_ff |-> K_ff(a.K, a.free), F_f |-> F_f(a.F, a.free)],
                     LAMBDA r :
                         Let(linalg_solve(r.K_ff, r.F_f, Len(a.free)),
                             LAMBDA sol :
                                 LinearOutcomes(sol, a.free, m.total_dofs))))

solve ==
    \E m \in {generate_dof_map(nodes)} : \E outcome \in SolveOutcomes(m) :
        /\ nodes' = m.nodes
        /\ total_dofs' = m.total_dofs
        /\ dof_map_generated' = TRUE
        /\ ret' = outcome
        /\ reads' = SolveReads(m, outcome)
        /\ UNCHANGED <<elements, constraints, constraint_keys, loads, load_calls,
                       constraint_calls, buckling>>

(***************************************************************************)
(* StaticSolver.compute_element_forces(u).  It reads dof_indices without   *)
(* regenerating the DOF map.                                               *)
(***************************************************************************)
\* u[dofs] raises IndexError when an index is out of bounds
GatherOk(u, dofs) == \A p \in DOMAIN dofs : dofs[p] < Len(u)

\* f_local of one element: k_local @ (T @ u[dofs]), on the node map ns
ElementForceOn(ns, u, el) ==
    Let([T |-> transformation_matrix(ElemCoords(ns, el)[1], ElemCoords(ns, el)[2]),
         k_local |-> local_stiffness_matrix(ElemCoords(ns, el)[1],
                                            ElemCoords(ns, el)[2]),
         u_global |-> Dense([p \in 1..14 |-> u[ElemDofs(ns, el)[p] + 1]], 14)],
        LAMBDA a :
            Let(MatVec(a.T, a.u_global, 14),
                LAMBDA u_local : MatVec(a.k_local, u_local, 14)))

ElementForce(u, el) == ElementForceOn(nodes, u, el)

\* outcome of one pass of the loop body on element el, on the node map ns
ForceStatusOn(ns, u, el) ==
    IF ~GatherOk(u, ElemDofs(ns, el)) THEN "IndexError"
    ELSE IF Len(ElemDofs(ns, el)) # 14 THEN "ValueError"
    ELSE "ok"

ForceStatus(u, el) == ForceStatusOn(nodes, u, el)

\* index of the first element on which the loop raises, 0 if none
FirstFailing(u) ==
    IF \E e \in DOMAIN elements : ForceStatus(u, elements[e]) # "ok"
    THEN CHOOSE e \in DOMAIN elements :
            /\ ForceStatus(u, elements[e]) # "ok"
            /\ \A e2 \in DOMAIN elements :
                  ForceStatus(u, elements[e2]) # "ok" => e <= e2
    ELSE 0

compute_element_forces(u) ==
    LET ff == FirstFailing(u)
        last == IF ff = 0 THEN Len(elements) ELSE ff
    IN /\ ret' = IF ff = 0
                 THEN Ret("compute_element_forces", <<u>>, "ok",
                          Dense([e \in 1..Len(elements) |->
                                    ElementForce(u, elements[e])], Len(elements)))
                 ELSE Ret("compute_element_forces", <<u>>,
                          ForceStatus(u, elements[ff]), <<>>)
       /\ reads' = [dofs |-> SubSeq(ElemReads(nodes), 1, 2 * last), total |-> <<>>]
       /\ UNCHANGED <<model_vars, load_calls, constraint_calls, buckling>>

(***************************************************************************)
(* BucklingSolver.solve(num_modes).  The call is followed through its      *)
(* stages; buckling.stage is the position reached and the other fields of  *)
(* buckling are the locals set so far.  ret is "running" during the call.  *)
(***************************************************************************)
\* stages at which no call is in progress
Quiescent == {"Idle", "Result", "NoValidModes", "Failed"}

BucklingRet(num_modes, status, val) == Ret("buckling_solve", <<num_modes>>, status, val)

\* entry of solve
buckling_begin(num_modes) ==
    /\ buckling.stage \in Quiescent
    /\ buckling' = [NoBuckling EXCEPT !.stage = "Init", !.num_modes = num_modes]
    /\ ret' = BucklingRet(num_modes, "running", <<>>)
    /\ reads' = NoReads
    /\ UNCHANGED <<model_vars, load_calls, constraint_calls>>

\* an exception leaves solve
BucklingRaise(error) ==
    /\ buckling' = [buckling EXCEPT !.stage = "Failed"]
    /\ ret' = BucklingRet(buckling.num_modes, error, <<>>)

\* variant: the axial force is read at local index 0 (node 1)
axial_forces_node1(element_forces) ==
    [e \in 1..Len(element_forces) |-> element_forces[e][1]]

\* axial_forces = [f[7] for f in element_forces]
axial_forces(element_forces) ==
    [e \in 1..Len(element_forces) |-> element_forces[e][8]]

\* u_static = static_solver.solve(); element_forces =
\* static_solver.compute_element_forces(u_static); axial_forces
buckling_static ==
    /\ buckling.stage = "Init"
    /\ \E m \in {generate_dof_map(nodes)} : \E outcome \in SolveOutcomes(m) :
        /\ nodes' = m.nodes
        /\ total_dofs' = m.total_dofs
        /\ dof_map_generated' = TRUE
        /\ IF outcome.status # "ok"
           THEN /\ BucklingRaise(outcome.status)
                /\ reads' = SolveReads(m, outcome)
           ELSE IF \E e \in DOMAIN elements :
                      ForceStatusOn(m.nodes, outcome.val.u, elements[e]) # "ok"
           THEN /\ BucklingRaise("IndexError")
                /\ reads' = SolveReads(m, outcome)
           ELSE /\ buckling' =
                     [buckling EXCEPT
                        !.stage = "StaticallySolved",
                        !.u_static = outcome.val.u,
                        !.axial_forces =
                            axial_forces(Dense([e \in 1..Len(elements) |->
                                ElementForceOn(m.nodes, outcome.val.u, elements[e])],
                                Len(elements)))]
                /\ ret' = ret
                /\ reads' = [dofs |-> SolveReads(m, outcome).dofs \o ElemReads(m.nodes),
                             total |-> SolveReads(m, outcome).total]
    /\ UNCHANGED <<elements, constraints, constraint_keys, loads, load_calls,
                   constraint_calls>>

\* K, Kg, constrained_dofs, free_dofs and the partition K_ff, Kg_ff
buckling_assemble ==
    /\ buckling.stage = "StaticallySolved"
    /\ \E m \in {EnsureDofMap} :
        /\ nodes' = m.nodes
        /\ total_dofs' = m.total_dofs
        /\ dof_map_generated' = TRUE
        /\ reads' = [dofs |-> ElemReads(m.nodes) \o ElemReads(m.nodes)
                                 \o ConstraintReads(m.nodes),
                     total |-> <<m.total_dofs, m.total_dofs, m.total_dofs>>]
        /\ IF ConstrainedRaises(m.nodes)
           THEN BucklingRaise("IndexError")
           ELSE /\ buckling' =
                     [buckling EXCEPT
                        !.stage = "MatricesAssembled",
                        !.free_dofs = free_dofs(m),
                        !.K_ff = K_ff(K_global(m), free_dofs(m)),
                        !.Kg_ff = K_ff(Kg_global(m, buckling.axial_forces), free_dofs(m))]
                /\ ret' = ret
    /\ UNCHANGED <<elements, constraints, constraint_keys, loads, load_calls,
                   constraint_calls>>

\* complex numbers: real and imaginary part
Complex(re, im) == [re |-> re, im |-> im]
ComplexInf == Complex(<<1, 0>>, QZero)
ComplexNan == Complex(QNan, QNan)

\* eigenvalues a generalized eigenproblem may have: two above the
\* threshold, a negative one, one at the threshold 1e-6, an infinite one and
\* one with an imaginary part
EigInputs ==
    {Complex(Rat(2), QZero), Complex(Rat(1), QZero), Complex(Rat(-1), QZero),
     Complex(<<1, 1000000>>, QZero), ComplexInf, Complex(Rat(1), Rat(1))}

\* -Kg_ff
NegMat(A, n) == DenseMat([i \in 1..n |-> [j \in 1..n |-> QNeg(A[i][j])]], n)

IsZeroMat(A, n) == \A i \in 1..n : \A j \in 1..n : A[i][j] = QZero

\* the eigenvalues scipy.linalg.eig(A, B) may return for n x n matrices:
\* alpha/beta of the QZ decomposition.  With B = 0 every beta is zero and
\* no eigenvalue is finite.  Otherwise the first MaxEigs values range over
\* EigInputs and the others are infinite.
Spectra(B, n) ==
    IF IsZeroMat(B, n)
    THEN {[i \in 1..n |-> ComplexInf], [i \in 1..n |-> ComplexNan]}
    ELSE {[i \in 1..n |-> IF i <= Len(h) THEN h[i] ELSE ComplexInf] :
             h \in [1..(IF n < MaxEigs THEN n ELSE MaxEigs) -> EigInputs]}

\* scipy.linalg.eig(A, B): check_finite raises ValueError on inf or nan; on
\* 0 x 0 matrices it raises or returns no eigenvalue, depending on the version
eig(A, B, n) ==
    IF HasNonFinite(A, n) \/ HasNonFinite(B, n)
    THEN {[status |-> "ValueError", vals |-> <<>>]}
    ELSE IF n = 0
    THEN {[status |-> "ValueError", vals |-> <<>>], [status |-> "ok", vals |-> <<>>]}
    ELSE {[status |-> "ok", vals |-> v] : v \in Spectra(B, n)}

\* vals, vecs = eig(K_ff, -Kg_ff); column i of vecs belongs to vals[i] and
\* is identified by i
buckling_eig ==
    /\ buckling.stage = "MatricesAssembled"
    /\ \E out \in eig(buckling.K_ff,
                      NegMat(buckling.Kg_ff, Len(buckling.free_dofs)),
                      Len(buckling.free_dofs)) :
          IF out.status # "ok"
          THEN BucklingRaise(out.status)
          ELSE /\ buckling' = [buckling EXCEPT !.stage = "EigenSolved",
                                               !.vals = out.vals]
               /\ ret' = ret
    /\ reads' = NoReads
    /\ UNCHANGED <<model_vars, load_calls, constraint_calls>>

\* variant of the filter without the lower bound
IsValid_any_sign(v) ==
    /\ v.im = QZero
    /\ QIsFinite(v.re) /\ QIsFinite(v.im)

\* np.isreal(v) and np.real(v) > 1e-6 and np.isfinite(v)
IsValid(v) ==
    /\ v.im = QZero
    /\ QLess(<<1, 1000000>>, v.re)
    /\ QIsFinite(v.re) /\ QIsFinite(v.im)

\* valid_indices: the positions (from 1) of the eigenvalues that pass the filter
RECURSIVE valid_indices(_, _)
valid_indices(vals, i) ==
    IF i > Len(vals) THEN <<>>
    ELSE (IF IsValid(vals[i]) THEN <<i>> ELSE <<>>) \o valid_indices(vals, i + 1)

\* np.argsort(a): the index orders that put a in ascending order (the
\* order among equal values is left to the sort)
argsort(a) ==
    {idx \in NodeKeyOrders(1..Len(a)) :
        \A k \in 1..(Len(a) - 1) : QLeq(a[idx[k]], a[idx[k + 1]])}

\* s[:n]
SliceTo(s, n) ==
    IF n >= Len(s) THEN s
    ELSE IF n >= 0 THEN SubSeq(s, 1, n)
    ELSE SubSeq(s, 1, IF Len(s) + n > 0 THEN Len(s) + n ELSE 0)

\* variant: "if not valid_indices" raises instead of returning
no_valid_modes_raise(num_modes, free) == BucklingRet(num_modes, "ValueError", <<>>)

\* return np.array([]), np.array([]), free_dofs
no_valid_modes(num_modes, free) ==
    BucklingRet(num_modes, "ok",
                [eigenvalues |-> <<>>, eigenvectors |-> <<>>, free_dofs |-> free])

\* the filter, the sort and the return; eigenvectors holds, for each
\* returned column, the position in vals of the eigenvalue it belongs to
buckling_return ==
    /\ buckling.stage = "EigenSolved"
    /\ \E valid \in {valid_indices(buckling.vals, 1)} :
          IF valid = <<>>
          THEN /\ buckling' = [buckling EXCEPT !.stage = "NoValidModes"]
               /\ ret' = no_valid_modes(buckling.num_modes, buckling.free_dofs)
          ELSE \E idx \in argsort([k \in 1..Len(valid) |-> buckling.vals[valid[k]].re]) :
               /\ buckling' = [buckling EXCEPT !.stage = "Result"]
               /\ ret' = BucklingRet(buckling.num_modes, "ok",
                     [eigenvalues |->
                         SliceTo([k \in 1..Len(valid) |-> buckling.vals[valid[idx[k]]].re],
                                 buckling.num_modes),
                      eigenvectors |->
                         SliceTo([k \in 1..Len(valid) |-> valid[idx[k]]],
                                 buckling.num_modes),
                      free_dofs |-> buckling.free_dofs])
    /\ reads' = NoReads
    /\ UNCHANGED <<model_vars, load_calls, constraint_calls>>

(***************************************************************************)
(* Specifications.  They share the actions and differ in the inputs the    *)
(* environment offers.                                                     *)
(***************************************************************************)
\* position of each input node id: node 1 at the origin, node 2 on the X axis
CoordOf(id) == IF id = 1 THEN <<0, 0, 0>> ELSE <<3, 0, 0>>

\* displacement vectors offered to compute_element_forces: the zero vector
\* of every length a model over NodeIds can have
UInputs == {[g \in 1..(ndof_per_node * k) |-> QZero] : k \in 0..Cardinality(NodeIds)}

\* Spec: every operation; one constrainable DOF, one load vector
Next ==
    \/ \E id \in NodeIds : add_node(id, CoordOf(id))
    \/ \E n2 \in NodeIds : Len(elements) < MaxElems /\ add_element(1, n2)
    \/ add_constraint(1, 0)
    \/ add_load(2, UnitLoad(1, 1))
    \/ assemble_stiffness
    \/ get_load_vector
    \/ get_constrained_dofs
    \/ solve
    \/ \E u \in UInputs : compute_element_forces(u)

Spec == Init /\ [][Next]_vars

\* SpecConstraints: add_node with two positions per id and add_constraint
\* with in-range and out-of-range dof indices
NextConstraints ==
    \/ \E id \in NodeIds, c \in CoordInputs : add_node(id, c)
    \/ \E n \in NodeIds, d \in DofInputs : add_constraint(n, d)
    \/ get_constrained_dofs

SpecConstraints == Init /\ [][NextConstraints]_vars

\* SpecLoads: loads on several nodes and DOFs, and the load vector
NextLoads ==
    \/ \E id \in NodeIds : add_node(id, CoordOf(id))
    \/ \E n \in NodeIds, v \in LoadInputs : add_load(n, v)
    \/ get_load_vector

SpecLoads == Init /\ [][NextLoads]_vars

\* SpecSolve: a beam from node 1 to node 2, node 1 constrained DOF by DOF
\* in ascending order, opposite loads on node 2, and the static solver
NextSolve ==
    \/ \E id \in NodeIds : add_node(id, CoordOf(id))
    \/ Len(elements) < MaxElems /\ add_element(1, 2)
    \/ \E d \in AllDofs :
          /\ d = Cardinality({c \in constraint_calls : c[1] = 1})
          /\ add_constraint(1, d)
    \/ \E f \in {1, -1} : add_load(2, UnitLoad(1, f))
    \/ solve

SpecSolve == Init /\ [][NextSolve]_vars

\* SpecAssemble: three nodes, node 3 off the X axis, up to one element more
\* than the other specifications between distinct nodes (so that two elements
\* can share a node), and assemble_stiffness
AssembleNodeIds == NodeIds \cup {3}
AssembleCoordOf(id) == IF id = 3 THEN ThirdCoord ELSE CoordOf(id)
ElementPairs == {<<1, 2>>, <<2, 3>>, <<3, 1>>}

NextAssemble ==
    \/ \E id \in AssembleNodeIds : add_node(id, AssembleCoordOf(id))
    \/ \E pr \in ElementPairs :
          Len(elements) < MaxElems + 1 /\ add_element(pr[1], pr[2])
    \/ assemble_stiffness

SpecAssemble == Init /\ [][NextAssemble]_vars

\* SpecBuckling: the model is built in a fixed order (node 1, node 2, the
\* beam, node 1 constrained DOF by DOF, axial loads on node 2 in compression
\* or tension); once a buckling analysis has been run the model is left
\* alone and further analyses follow
NumModesInputs == {1, 2}

NextBuckling ==
    \/ \E id \in NodeIds :
          /\ buckling.stage = "Idle"
          /\ id = Cardinality(DOMAIN nodes) + 1
          /\ add_node(id, CoordOf(id))
    \/ buckling.stage = "Idle" /\ Len(elements) < MaxElems /\ add_element(1, 2)
    \/ \E d \in AllDofs :
          /\ buckling.stage = "Idle"
          /\ d = Cardinality({c \in constraint_calls : c[1] = 1})
          /\ add_constraint(1, d)
    \/ \E f \in {-1, 1} : buckling.stage = "Idle" /\ add_load(2, UnitLoad(0, f))
    \/ \E n \in NumModesInputs : buckling_begin(n)
    \/ buckling_static
    \/ buckling_assemble
    \/ buckling_eig
    \/ buckling_return

SpecBuckling == Init /\ [][NextBuckling]_vars

\* SpecSolvers: SpecBuckling with the two operations of StaticSolver
\* offered on the model while no buckling analysis has been run
NextSolvers ==
    \/ NextBuckling
    \/ buckling.stage = "Idle" /\ solve
    \/ \E u \in UInputs : buckling.stage = "Idle" /\ compute_element_forces(u)

SpecSolvers == Init /\ [][NextSolvers]_vars

\* SpecSetup: the setup operations with ids in and out of the model and
\* load vectors of length 7, 1 and 3, and get_load_vector to generate the
\* DOF map
SetupLoadInputs == {UnitLoad(1, 1), <<5>>, <<1, 2, 3>>}

NextSetup ==
    \/ \E id \in NodeIds : add_node(id, CoordOf(id))
    \/ Len(elements) < MaxElems /\ add_element(1, 2)
    \/ \E n \in NodeIds : add_constraint(n, 0)
    \/ \E n \in NodeIds, v \in SetupLoadInputs : add_load(n, v)
    \/ get_load_vector

SpecSetup == Init /\ [][NextSetup]_vars

\* SpecElement: the constructors and matrices of single objects, applied to
\* inputs drawn from the sets below; the model itself stays empty.
EInputs == {Rat(60), Rat(200)}
GInputs == {None, Rat(30), Rat(100), QZero}
NuInputs == {None, <<3, 10>>, QZero, Rat(-1)}

\* Material(...) as a call on the (unchanged) program state
construct_material(E, G, nu) ==
    /\ ret' = Ret("Material", <<E, G, nu>>, Material_init(E, G, nu).status,
                  Material_init(E, G, nu))
    /\ reads' = NoReads
    /\ UNCHANGED <<model_vars, load_calls, constraint_calls, buckling>>

\* end points <<node1.coords, node2.coords>> of the elements offered: along
\* +X, -X, +Y, -Y, +Z, -Z, oblique in the XY plane, oblique in the YZ plane,
\* and of length 1
ElementEnds ==
    {<<(<<0, 0, 0>>), c2>> : c2 \in {<<3, 0, 0>>, <<-3, 0, 0>>, <<0, 3, 0>>,
                                    <<0, -3, 0>>, <<0, 0, 3>>, <<0, 0, -3>>,
                                    <<3, 4, 0>>, <<0, 3, 4>>, <<1, 0, 0>>}}
    \cup {<<(<<3, 0, 0>>), (<<0, 0, 0>>)>>}

MaterialInputs ==
    {Material_init(Rat(60), Rat(30), None), Material_init(Rat(200), None, <<3, 10>>)}
SectionInputs ==
    {element_section,
     [A |-> <<1, 100>>, Iy |-> Rat(2), Iz |-> Rat(3), J |-> <<1, 2>>, Cw |-> Rat(5)]}
\* axial forces offered to geometric_stiffness_matrix: compression, zero, tension
PInputs == {Rat(-1000), QZero, Rat(7)}

call_local_stiffness_matrix(mat, sec, ends) ==
    /\ ret' = Ret("local_stiffness_matrix", <<mat, sec, ends>>, "ok",
                  local_stiffness(mat, sec, Rat(length(ends[1], ends[2]))))
    /\ reads' = NoReads
    /\ UNCHANGED <<model_vars, load_calls, constraint_calls, buckling>>

call_geometric_stiffness_matrix(sec, ends, P) ==
    /\ ret' = Ret("geometric_stiffness_matrix", <<sec, ends, P>>, "ok",
                  geometric_stiffness(sec, Rat(length(ends[1], ends[2])), P))
    /\ reads' = NoReads
    /\ UNCHANGED <<model_vars, load_calls, constraint_calls, buckling>>

call_transformation_matrix(ends) ==
    /\ ret' = Ret("transformation_matrix", <<ends>>, "ok",
                  [R |-> direction_cosine_matrix(ends[1], ends[2]),
                   T |-> transformation_matrix(ends[1], ends[2])])
    /\ reads' = NoReads
    /\ UNCHANGED <<model_vars, load_calls, constraint_calls, buckling>>

\* Young's moduli of steel (200e9) exceed the integers of the model checker:
\* E is held in units of EUnit.  Every stiffness term is E (or G, which
\* Material derives as a multiple of E) times a quantity free of E, so forces
\* come out in units of EUnit as well.
EUnit == 1000

\* the element of the unit tests: Node(1, 0,0,0), Node(2, 1,0,0),
\* Material(E=200e9, nu=0.3), Section(A=0.01, Iy=1e-5, Iz=1e-5, J=1e-6, Cw=1e-8)
basic_material == Material_init(Rat(200000000), None, <<3, 10>>)
basic_section ==
    [A |-> <<1, 100>>, Iy |-> <<1, 100000>>, Iz |-> <<1, 100000>>,
     J |-> <<1, 1000000>>, Cw |-> <<1, 100000000>>]
basic_ends == <<(<<0, 0, 0>>), (<<1, 0, 0>>)>>

\* u = np.zeros(14); u[i] = delta; f = k @ u, for the element of the unit
\* tests; val = [f, unit] with the forces f in units of unit
apply_local_displacement(i, delta) ==
    /\ ret' = Ret("k_local @ u", <<i, delta>>, "ok",
                  [f |-> MatVec(local_stiffness(basic_material, basic_section,
                                                Rat(length(basic_ends[1], basic_ends[2]))),
                                [k \in 1..14 |-> IF k = i + 1 THEN delta ELSE QZero], 14),
                   unit |-> EUnit])
    /\ reads' = NoReads
    /\ UNCHANGED <<model_vars, load_calls, constraint_calls, buckling>>

\* the calls are pure functions of their arguments: every behaviour makes one
NextElement ==
    \/ \E E \in EInputs, G \in GInputs, nu \in NuInputs :
          ret.op = "init" /\ construct_material(E, G, nu)
    \/ \E mat \in MaterialInputs, sec \in SectionInputs, ends \in ElementEnds :
          ret.op = "init" /\ call_local_stiffness_matrix(mat, sec, ends)
    \/ \E sec \in SectionInputs, ends \in ElementEnds, P \in PInputs :
          ret.op = "init" /\ call_geometric_stiffness_matrix(sec, ends, P)
    \/ \E ends \in ElementEnds :
          ret.op = "init" /\ call_transformation_matrix(ends)
    \/ \E i \in 0..13, delta \in {<<1, 1000>>, QOne} :
          ret.op = "init" /\ apply_local_displacement(i, delta)

SpecElement == Init /\ [][NextElement]_vars

(***************************************************************************)
(* Properties.                                                             *)
(***************************************************************************)
\* the numbering of the current node set: the node with the k-th smallest id
\* (k from 0) owns the global indices 7k .. 7k+6
Rank(ns, nid) == Cardinality({m \in DOMAIN ns : m < nid})
FreshDofIndices(ns, nid) ==
    [i \in 1..ndof_per_node |-> ndof_per_node * Rank(ns, nid) + i - 1]

\* C1: whenever an operation reads a node's dof_indices or total_dofs, the
\* value read equals the numbering of the current node set (no stale DOF map
\* is ever read).  compute_element_forces reads dof_indices without
\* regenerating the map, so this fails.
C1_NoStaleRead ==
    /\ \A k \in DOMAIN reads.dofs :
          reads.dofs[k][2] = FreshDofIndices(nodes, reads.dofs[k][1])
    /\ \A k \in DOMAIN reads.total :
          reads.total[k] = ndof_per_node * Cardinality(DOMAIN nodes)

\* C2: once the DOF map is generated, the node with the k-th smallest id has
\* dof_indices [7k .. 7k+6], the blocks of distinct nodes are disjoint and
\* cover exactly 0 .. 7n-1, and total_dofs = 7n.
C2_DofMapBlocks ==
    dof_map_generated =>
        /\ \A nid \in DOMAIN nodes :
              nodes[nid].dof_indices = FreshDofIndices(nodes, nid)
        /\ \A a \in DOMAIN nodes : \A b \in DOMAIN nodes :
              a # b => Range(nodes[a].dof_indices) \cap Range(nodes[b].dof_indices) = {}
        /\ UNION {Range(nodes[nid].dof_indices) : nid \in DOMAIN nodes}
              = 0..(ndof_per_node * Cardinality(DOMAIN nodes) - 1)
        /\ total_dofs = ndof_per_node * Cardinality(DOMAIN nodes)

\* a generated map over two nodes: the larger id owns the second block
C2_Witness ==
    /\ dof_map_generated
    /\ DOMAIN nodes = {1, 2}
    /\ nodes[2].dof_indices = <<7, 8, 9, 10, 11, 12, 13>>
    /\ total_dofs = 14

\* C3: add_node with an id already in the model fails with ValueError and the
\* node stored under that id (and the rest of the model) stays as it was;
\* add_node with a new id stores the node, keeps the others and clears the
\* generated flag of the DOF map.
C3_AddNode ==
    [][ret'.op = "add_node" =>
          IF ret'.args[1] \in DOMAIN nodes
          THEN /\ ret'.status = "ValueError"
               /\ UNCHANGED model_vars
          ELSE /\ ret'.status = "ok"
               /\ DOMAIN nodes' = DOMAIN nodes \cup {ret'.args[1]}
               /\ nodes'[ret'.args[1]] = Node(ret'.args[2])
               /\ \A n \in DOMAIN nodes : nodes'[n] = nodes[n]
               /\ dof_map_generated' = FALSE]_vars

\* a duplicate id offered with other coordinates was rejected, and the node
\* stored first is still there
C3_Witness ==
    /\ ret.op = "add_node"
    /\ ret.status = "ValueError"
    /\ ret.args[1] \in DOMAIN nodes
    /\ nodes[ret.args[1]].coords # ret.args[2]

\* the (node, dof) pairs of a constraint registry
RegistryPairs(cs) == UNION {{<<n, d>> : d \in cs[n]} : n \in DOMAIN cs}

\* C4: add_constraint on a node id that is not in the model fails with
\* ValueError and changes nothing; otherwise it is a set union that is
\* idempotent (a pair already recorded leaves the registry as it is), and the
\* registry holds exactly the set of pairs of the successful calls, whatever
\* their order and multiplicity.
C4_AddConstraint ==
    [][ret'.op = "add_constraint" =>
          IF ret'.args[1] \notin DOMAIN nodes
          THEN /\ ret'.status = "ValueError"
               /\ UNCHANGED model_vars
          ELSE /\ ret'.status = "ok"
               /\ RegistryPairs(constraints') = RegistryPairs(constraints) \cup {ret'.args}
               /\ ret'.args \in RegistryPairs(constraints) => constraints' = constraints
               /\ RegistryPairs(constraints') = constraint_calls'
               /\ DOMAIN constraints' = {c[1] : c \in constraint_calls'}]_vars

\* both nodes are constrained, node 2 before node 1, node 1 on several DOFs
C4_Witness ==
    /\ ret.op = "add_constraint"
    /\ ret.status = "ok"
    /\ constraint_keys = <<2, 1>>
    /\ Cardinality(constraints[1]) >= 2

\* sum of component d (1..7) over the add_load calls for node nid
RECURSIVE SumOfCalls(_, _, _)
SumOfCalls(calls, nid, d) ==
    IF calls = <<>> THEN 0
    ELSE (IF Head(calls)[1] = nid THEN Head(calls)[2][d] ELSE 0)
         + SumOfCalls(Tail(calls), nid, d)

\* C5: add_load fails with ValueError exactly when the node id is not in the
\* model; the vector get_load_vector returns has length total_dofs = 7n and
\* holds, at global index dof_indices[d] of every node, the sum of component d
\* over all add_load calls for that node (zero for a node without load).
C5_LoadVector ==
    /\ ret.op = "add_load" =>
          (ret.status = "ValueError" <=> ret.args[1] \notin DOMAIN nodes)
    /\ ret.op = "get_load_vector" =>
          /\ ret.status = "ok"
          /\ Len(ret.val) = total_dofs
          /\ total_dofs = ndof_per_node * Cardinality(DOMAIN nodes)
          /\ \A nid \in DOMAIN nodes : \A d \in 1..ndof_per_node :
                ret.val[nodes[nid].dof_indices[d] + 1] = SumOfCalls(load_calls, nid, d)

\* the load vector of a two-node model: two loads accumulated on node 2,
\* none on node 1
C5_Witness ==
    /\ ret.op = "get_load_vector"
    /\ DOMAIN nodes = {1, 2}
    /\ Len(load_calls) = 2
    /\ load_calls[1][1] = 2 /\ load_calls[2][1] = 2
    /\ \E g \in DOMAIN ret.val : ret.val[g] # 0

\* strictly ascending sequence
StrictlyAscending(seq) == \A i \in DOMAIN seq : \A j \in DOMAIN seq : i < j => seq[i] < seq[j]

\* C6: every local DOF index recorded in the constraint registry lies in
\* 0..6, and get_constrained_dofs returns a strictly ascending sequence of
\* global indices in [0, total_dofs) holding exactly dof_indices[d] of every
\* recorded (node, d).  add_constraint records any dof_index it is given, so
\* this fails.
C6_ConstrainedDofs ==
    /\ \A n \in DOMAIN constraints : constraints[n] \subseteq AllDofs
    /\ ret.op = "get_constrained_dofs" =>
          /\ ret.status = "ok"
          /\ StrictlyAscending(ret.val)
          /\ \A k \in DOMAIN ret.val : ret.val[k] >= 0 /\ ret.val[k] < total_dofs
          /\ Range(ret.val) = {nodes[c[1]].dof_indices[c[2] + 1] :
                                  c \in RegistryPairs(constraints)}

\* the constrained global DOFs, from the calls made and the numbering of
\* the current node set
ConstrainedGlobal ==
    {FreshDofIndices(nodes, c[1])[c[2] + 1] : c \in constraint_calls}
FreeGlobal ==
    (0..(ndof_per_node * Cardinality(DOMAIN nodes) - 1)) \ ConstrainedGlobal

\* row g of K u = F restricted to the free DOFs
FreeRowHolds(K, F, u, g) ==
    QSum([k \in 1..Len(u) |-> IF (k - 1) \in FreeGlobal
                              THEN QMul(K[g + 1][k], u[k]) ELSE QZero], Len(u))
        = Rat(F[g + 1])

\* C7: a vector returned by solve has length 7n, is zero at every
\* constrained global DOF, and at the free DOFs (the complement within
\* 0..7n-1) holds the solution of K_ff u_f = F_f; with no free DOF it is the
\* zero vector and no linear solve was made.
C7_SolveVector ==
    (ret.op = "solve" /\ ret.status = "ok") =>
        /\ Len(ret.val.u) = ndof_per_node * Cardinality(DOMAIN nodes)
        /\ \A g \in ConstrainedGlobal : ret.val.u[g + 1] = QZero
        /\ Range(ret.val.free) = FreeGlobal
        /\ FreeGlobal = {} =>
              /\ ret.val.linsolve = "none"
              /\ \A g \in DOMAIN ret.val.u : ret.val.u[g] = QZero
        /\ FreeGlobal # {} => ret.val.linsolve # "none"
        /\ ret.val.linsolve = "ok" =>
              \A g \in FreeGlobal :
                  FreeRowHolds(K_global([nodes |-> nodes, total_dofs |-> total_dofs]),
                               F_global([nodes |-> nodes, total_dofs |-> total_dofs]),
                               ret.val.u, g)

\* a loaded beam clamped at node 1: the solution is non-zero at a free DOF
C7_Witness ==
    /\ ret.op = "solve"
    /\ ret.status = "ok"
    /\ ret.val.linsolve = "ok"
    /\ ConstrainedGlobal # {}
    /\ \E g \in FreeGlobal : ret.val.u[g + 1] # QZero

\* every component of the add_load calls sums to zero on every node
ZeroLoads ==
    \A nid \in NodeIds : \A d \in 1..ndof_per_node :
        SumOfCalls(load_calls, nid, d) = 0

\* C8: when the accumulated loads are all zero and K_ff is non-singular,
\* solve returns the all-zero displacement vector.
C8_ZeroLoadsZeroVector ==
    (ret.op = "solve" /\ ZeroLoads /\ ret.val.linsolve \in {"ok", "none"}) =>
        /\ ret.status = "ok"
        /\ \A g \in DOMAIN ret.val.u : ret.val.u[g] = QZero

\* opposite loads were applied to a clamped beam and cancel
C8_Witness ==
    /\ ret.op = "solve"
    /\ ret.val.linsolve = "ok"
    /\ Len(load_calls) = 2
    /\ ZeroLoads

\* C9: solve on a model whose K_ff is singular fails with the singular-matrix
\* error and never returns a displacement vector.  np.linalg.solve raises only
\* on an exactly zero pivot; when rounding leaves a residue in the pivot,
\* solve returns a vector, so this fails.
C9_SingularRaises ==
    (ret.op = "solve" /\ ret.val.linsolve \in {"singular", "uncertain", "garbage"}) =>
        ret.status = "LinAlgError"

\* some element of the model joins two points with identical coordinates
HasZeroLengthElement ==
    \E e \in DOMAIN elements :
        nodes[elements[e].node1].coords = nodes[elements[e].node2].coords

\* C10: a zero-length element is reported as an error: no assembled matrix,
\* solve result or element force is produced from it.  Nothing checks the
\* length, so assembly and solve return (nan-filled) results and this fails.
C10_DegenerateRejected ==
    HasZeroLengthElement =>
        ~(ret.op \in {"assemble_stiffness", "solve", "compute_element_forces"}
            /\ ret.status = "ok")

\* C11: every successfully constructed Material satisfies
\* G = E / (2 (1 + nu)) between its stored E, G and nu, whichever of G and nu
\* were supplied, and a Material given neither G nor nu fails with ValueError.
\* With both G and nu supplied the two are stored as given, unchecked, so this
\* fails.
C11_MaterialConsistent ==
    ret.op = "Material" =>
        /\ (ret.args[2] = None /\ ret.args[3] = None) <=> ret.status = "ValueError"
        /\ ret.status = "ok" =>
              ret.val.G = QDiv(ret.val.E, QMul(Rat(2), QAdd(QOne, ret.val.nu)))

\* a 14 x 14 matrix that equals its transpose
IsSquare14(M) == Len(M) = 14 /\ \A i \in 1..14 : Len(M[i]) = 14
IsSymmetric14(M) == \A i \in 1..14 : \A j \in 1..14 : M[i][j] = M[j][i]

\* the 0-based local indices i and j lie in the same sub-block
SameGroup(i, j) ==
    \E idx \in {axial_indices, torsion_indices, bending_z_indices, bending_y_indices} :
        PosIn(idx, i) > 0 /\ PosIn(idx, j) > 0

\* C15: for every element of positive length and every material and section,
\* local_stiffness_matrix() is a 14 x 14 symmetric matrix whose non-zero
\* entries lie inside the index groups {0,7}, {3,6,10,13}, {1,5,8,12} and
\* {2,4,9,11}.
C15_LocalStiffnessSymmetric ==
    ret.op = "local_stiffness_matrix" =>
        /\ IsSquare14(ret.val)
        /\ IsSymmetric14(ret.val)
        /\ \A i \in 1..14 : \A j \in 1..14 :
              ret.val[i][j] # QZero => SameGroup(i - 1, j - 1)

\* the matrix of an oblique element of length 5 with the second material and
\* section: the y-bending coupling (w1, theta_y1) is non-zero
C15_Witness ==
    /\ ret.op = "local_stiffness_matrix"
    /\ ret.args[3] = <<(<<0, 0, 0>>), (<<3, 4, 0>>)>>
    /\ ret.args[2] # element_section
    /\ ret.val[3][5] # QZero
    /\ ret.val[3][5] = ret.val[5][3]

\* C16: for every element and every axial force P (compression, zero,
\* tension), geometric_stiffness_matrix(P) is a 14 x 14 symmetric matrix, and
\* its y-bending block (indices 2,4,9,11) is the z-bending block (indices
\* 1,5,8,12) with the signs of the rotation rows and columns flipped.
C16_GeometricStiffnessSymmetric ==
    ret.op = "geometric_stiffness_matrix" =>
        /\ IsSquare14(ret.val)
        /\ IsSymmetric14(ret.val)
        /\ \A a \in 1..4 : \A b \in 1..4 :
              ret.val[bending_y_indices[a] + 1][bending_y_indices[b] + 1] =
                 IF (a \in {2, 4}) # (b \in {2, 4})
                 THEN QNeg(ret.val[bending_z_indices[a] + 1][bending_z_indices[b] + 1])
                 ELSE ret.val[bending_z_indices[a] + 1][bending_z_indices[b] + 1]

\* the matrix of a compressed element: the coupling (w1, theta_y1) is
\* non-zero and opposite to the coupling (v1, theta_z1)
C16_Witness ==
    /\ ret.op = "geometric_stiffness_matrix"
    /\ ret.args[3] = Rat(-1000)
    /\ ret.val[3][5] # QZero
    /\ ret.val[3][5] = QNeg(ret.val[2][6])

\* column c of a 3 x 3 matrix, and the dot product of two 3-vectors
Col3(R, c) == <<R[1][c], R[2][c], R[3][c]>>
Dot3(a, b) == QAdd(QAdd(QMul(a[1], b[1]), QMul(a[2], b[2])), QMul(a[3], b[3]))

C18_AxialForce2000 ==
    (ret.op = "k_local @ u" /\ ret.args = <<7, (<<1, 1000>>)>>) =>
        /\ QMul(ret.val.f[8], Rat(ret.val.unit)) = Rat(2000)
        /\ QMul(ret.val.f[1], Rat(ret.val.unit)) = Rat(-2000)

\* C18, amended: the internal axial force is E A delta / L = 2 000 000 at
\* local index 7 and -2 000 000 at local index 0, and zero at every other
\* local DOF.
C18_AxialForce ==
    (ret.op = "k_local @ u" /\ ret.args = <<7, (<<1, 1000>>)>>) =>
        /\ QMul(ret.val.f[8], Rat(ret.val.unit)) = Rat(2000000)
        /\ QMul(ret.val.f[1], Rat(ret.val.unit)) = Rat(-2000000)
        /\ \A k \in 1..14 : k \notin {1, 8} => ret.val.f[k] = QZero

\* the force vector of the unit-test element under u[7] = 0.001
C18_Witness ==
    /\ ret.op = "k_local @ u"
    /\ ret.args = <<7, (<<1, 1000>>)>>
    /\ Len(ret.val.f) = 14
    /\ ret.val.f[8] # QZero

\* the 14 x 14 global stiffness of element e and its index list under the
\* numbering of the current node set
ElemStiffness(e) ==
    global_stiffness_matrix(nodes[elements[e].node1].coords,
                            nodes[elements[e].node2].coords)
ElemIndexList(e) ==
    FreshDofIndices(nodes, elements[e].node1) \o FreshDofIndices(nodes, elements[e].node2)

\* what an element with index list idx and 14 x 14 matrix k contributes to
\* entry (i, j) (0-based) of the global matrix
Contribution(idx, k, i, j) ==
    QSum([a \in 1..14 |->
            IF idx[a] = i
            THEN QSum([b \in 1..14 |-> IF idx[b] = j THEN k[a][b] ELSE QZero], 14)
            ELSE QZero], 14)

\* index list and global stiffness of every element, in insertion order
ElemContributions ==
    Dense([e \in 1..Len(elements) |->
              [idx |-> ElemIndexList(e), k |-> ElemStiffness(e)]], Len(elements))

Determinate(r) == r.val.linsolve \in {"none", "ok", "nan", "singular"}

\* C14: a solve that follows a solve of the same model returns the same
\* result and leaves the DOF map as it was; and whatever the order in which
\* the nodes were inserted, a solve gives the same DOF numbering, the same
\* total, the same constrained-DOF sequence (hence the same free DOFs it
\* returns) and the same load vector.
C14_Reproducible ==
    [][/\ (ret.op = "solve" /\ ret'.op = "solve" /\ Determinate(ret)) =>
              (ret' = ret /\ nodes' = nodes /\ total_dofs' = total_dofs)
       /\ ret'.op = "solve" =>
              \A keys \in NodeKeyOrders(DOMAIN nodes) :
                 \A m \in {GenerateFrom(nodes, keys)} :
                    /\ m.nodes = nodes'
                    /\ m.total_dofs = total_dofs'
                    /\ F_global(m) = F_global([nodes |-> nodes',
                                               total_dofs |-> total_dofs'])
                    /\ ret'.status # "IndexError" =>
                          /\ constrained_dofs(m) =
                                SortedSeq((0..(total_dofs' - 1)) \ Range(ret'.val.free))
                          /\ free_dofs(m) = ret'.val.free]_vars

\* a solve has returned displacements for a model of two nodes, with node 1
\* constrained and node 2 loaded
C14_Witness ==
    /\ ret.op = "solve" /\ ret.status = "ok" /\ ret.val.linsolve = "ok"
    /\ Cardinality(NodeKeyOrders(DOMAIN nodes)) = 2
    /\ DOMAIN constraints = {1}
    /\ DOMAIN loads = {2}
    /\ \E d \in 1..ndof_per_node : loads[2][d] # 0
    /\ \E g \in 1..total_dofs : ret.val.u[g] # QZero

\* positions of the eigenvalues that survive the filter as the
\* specification words it: real, finite and above 1e-6
Survivors(vals) ==
    {i \in 1..Len(vals) :
        /\ vals[i].im = QZero
        /\ QIsFinite(vals[i].re)
        /\ QLess(<<1, 1000000>>, vals[i].re)}

C13_NoValidModes ==
    [][buckling.stage = "EigenSolved" =>
          /\ Survivors(buckling.vals) = {} =>
                /\ buckling'.stage = "NoValidModes"
                /\ ret'.status = "ok"
                /\ ret'.val.eigenvalues = <<>>
                /\ ret'.val.eigenvectors = <<>>
          /\ buckling'.stage \in {"Result", "NoValidModes"} =>
                /\ ret'.status = "ok"
                /\ ret'.val.free_dofs = SortedSeq(FreeGlobal)
                /\ total_dofs = ndof_per_node * Cardinality(DOMAIN nodes)
                /\ ret'.val.free_dofs =
                      free_dofs([nodes |-> nodes, total_dofs |-> total_dofs])]_vars

\* the call has returned empty results for a model with free DOFs whose
\* eigenvalues were all discarded, one of them for being negative
C13_Witness ==
    /\ buckling.stage = "NoValidModes"
    /\ ret.status = "ok"
    /\ ret.val.eigenvalues = <<>>
    /\ Len(ret.val.free_dofs) = ndof_per_node
    /\ constraints # <<>>
    /\ Len(buckling.vals) = ndof_per_node
    /\ buckling.vals[1] = Complex(Rat(-1), QZero)

\* the order of the stages of BucklingSolver.solve; a call that raises
\* ends in "Failed"
StageEdges ==
    {<<q, "Init">> : q \in Quiescent}
    \cup {<<"Init", "StaticallySolved">>, <<"Init", "Failed">>,
          <<"StaticallySolved", "MatricesAssembled">>,
          <<"MatricesAssembled", "EigenSolved">>, <<"MatricesAssembled", "Failed">>,
          <<"EigenSolved", "Result">>, <<"EigenSolved", "NoValidModes">>}

RejectedForId(r, ns) ==
    /\ r.status = "ValueError"
    /\ \/ r.op = "add_node" /\ r.args[1] \in DOMAIN ns
       \/ r.op \in {"add_constraint", "add_load"} /\ r.args[1] \notin DOMAIN ns

\* C21: a setup operation rejected for its node id leaves the model as it
\* was: nodes, elements, the constraint registry, the load registry,
\* total_dofs and the DOF-map-generated flag do not change.
C21_FailedSetupNoEffect ==
    [][RejectedForId(ret', nodes)
          => UNCHANGED <<nodes, elements, constraints, constraint_keys, loads,
                         total_dofs, dof_map_generated>>]_vars

\* add_node has been rejected for a duplicate id on a model with a
\* generated DOF map, a constraint and a load
C21_Witness ==
    /\ ret.op = "add_node" /\ ret.status = "ValueError"
    /\ dof_map_generated
    /\ total_dofs = ndof_per_node * Cardinality(NodeIds)
    /\ constraints # <<>> /\ loads # <<>>

\* the step belongs to StaticSolver.solve, compute_element_forces or
\* BucklingSolver.solve (any of its stages after the entry)
SolverStep ==
    \/ ret'.op \in {"solve", "compute_element_forces"}
    \/ ret'.op = "buckling_solve" /\ buckling.stage \notin Quiescent

\* C22: a step of StaticSolver.solve, compute_element_forces or
\* BucklingSolver.solve, returning or raising, leaves the ids and coordinates
\* of the nodes, the element list, the constraint registry and the load
\* registry unchanged; it may write dof_indices, total_dofs and the
\* generated flag only, compute_element_forces writes nothing, and when the
\* map was generated for the current node set the numbering and the total
\* it writes are the ones already there.
C22_SolversReadOnly ==
    [][SolverStep =>
          /\ UNCHANGED <<elements, constraints, constraint_keys, loads>>
          /\ DOMAIN nodes' = DOMAIN nodes
          /\ \A n \in DOMAIN nodes : nodes'[n].coords = nodes[n].coords
          /\ ret'.op = "compute_element_forces" =>
                UNCHANGED <<nodes, total_dofs, dof_map_generated>>
          /\ dof_map_generated =>
                UNCHANGED <<nodes, total_dofs, dof_map_generated>>]_vars

\* a buckling analysis has returned modes on the complete model (both
\* nodes, the beam, constraints and loads), numbered in ascending id order
C22_Witness ==
    /\ buckling.stage = "Result"
    /\ dof_map_generated
    /\ DOMAIN nodes = NodeIds
    /\ \A n \in DOMAIN nodes : nodes[n].dof_indices = FreshDofIndices(nodes, n)
    /\ Len(elements) > 0 /\ constraints # <<>> /\ loads # <<>>

====
